---- MODULE Spec2Model ----
(***************************************************************************)
(* verify_sessions.py: a Playwright script that drives the web application *)
(* through "pick recent repo, fill title, Start Session", takes a          *)
(* screenshot and checks ~/.viba/sessions for a .json file.                *)
(*                                                                         *)
(* The script is one sequential thread.  pc is the statement about to run, *)
(* every action is one statement (or one block) of the script, and the     *)
(* outcome of each external call (browser, application under test, file    *)
(* system) is an input drawn with \E.                                      *)
(***************************************************************************)
EXTENDS Naturals, Sequences, FiniteSets

VARIABLES
    pc,          \* the statement about to run
    playwright,  \* "none" | "started" | "stopped": the sync_playwright() driver
    browser,     \* "none" | "open" | "closed" | "terminated"
    page,        \* "none" | "open" | "closed"
    url,         \* the page's location
    trace,       \* the calls begun so far, in order
    raised,      \* the exceptions raised so far, in order
    caught,      \* e of "except Exception as e" (NoExc outside the handler)
    exc,         \* the exception propagating out of the try statement
    uncaught,    \* the exception that left the with block (traceback)
    stdout,      \* the lines printed
    sessions0,   \* ~/.viba/sessions when the run started
    sessions,    \* ~/.viba/sessions now
    evidenceDir, \* does ./verification exist
    madeBy,      \* who created ./verification in this run
    written      \* the screenshot paths written in this run, in order

vars == <<pc, playwright, browser, page, url, trace, raised, caught, exc,
          uncaught, stdout, sessions0, sessions, evidenceDir, madeBy, written>>

(***************************************************************************)
(* Bounds                                                                  *)
(***************************************************************************)
\* entries ~/.viba/sessions holds before the run, at most
MaxEntries == 2

(***************************************************************************)
(* File names are sequences of characters, so that str.endswith is         *)
(* computed and not assumed.                                               *)
(***************************************************************************)
DotJson == <<".", "j", "s", "o", "n">>

A_json     == <<"a", ".", "j", "s", "o", "n">>
Only_json  == <<".", "j", "s", "o", "n">>
Bare_json  == <<"j", "s", "o", "n">>
A_json_bak == <<"a", ".", "j", "s", "o", "n", ".", "b">>
A_txt      == <<"a", ".", "t">>

Names == {A_json, Only_json, Bare_json, A_json_bak, A_txt}

\* what a file holds: the session titled "Test Session", or anything else
Contents == {"Test Session", "other"}

\* str.endswith(suffix)
endswith_nodot(f, suffix) ==
    /\ Len(f) >= Len(Tail(suffix))
    /\ SubSeq(f, Len(f) - Len(Tail(suffix)) + 1, Len(f)) = Tail(suffix)

endswith(f, suffix) ==
    /\ Len(f) >= Len(suffix)
    /\ SubSeq(f, Len(f) - Len(suffix) + 1, Len(f)) = suffix

\* a directory: exists, and its entries (unique by name)
NoDir == [exists |-> FALSE, files |-> {}]

UniqueNames(fs) == \A e1, e2 \in fs : e1.name = e2.name => e1 = e2

InitialDirs ==
    {NoDir} \cup
    {[exists |-> TRUE, files |-> fs] :
        fs \in {s \in SUBSET [name : Names, content : Contents, mtime : {0}] :
                    Cardinality(s) <= MaxEntries /\ UniqueNames(s)}}

\* os.listdir(sessions_dir): the names only
listdir(d) == {e.name : e \in d.files}

\* any(f.endswith(".json") for f in files)
any_json(files) == \E f \in files : endswith(f, DotJson)

(***************************************************************************)
(* Locations and the pattern of page.wait_for_url("**/session?*")          *)
(***************************************************************************)
Urls == {"about:blank", "http://localhost:3000/",
         "http://localhost:3000/session?repo=test-repo"}

wait_for_url_matches(u) == u = "http://localhost:3000/session?repo=test-repo"

(***************************************************************************)
(* Exceptions                                                              *)
(***************************************************************************)
NoExc == [at |-> "none", kind |-> "none"]

Exc(step, kind) == [at |-> step, kind |-> kind]

\* the statements of test_session_creation, in program order
StepOrder == <<"goto", "expect_repo_visible", "repo_click",
               "expect_title_visible", "title_fill", "start_click",
               "wait_for_url", "wait_for_timeout", "screenshot",
               "artifact_check">>

IndexOf(step) == CHOOSE i \in DOMAIN StepOrder : StepOrder[i] = step

\* the statement that follows a statement of the try body that returned
SuccSkip(step) ==
    IF step = "expect_title_visible" THEN "start_click"
    ELSE IF IndexOf(step) = Len(StepOrder) THEN "print_success"
    ELSE StepOrder[IndexOf(step) + 1]

Succ(step) ==
    IF IndexOf(step) = Len(StepOrder) THEN "print_success"
    ELSE StepOrder[IndexOf(step) + 1]

Init ==
    /\ pc = "sync_playwright"
    /\ playwright = "none"
    /\ browser = "none"
    /\ page = "none"
    /\ url = "about:blank"
    /\ trace = <<>>
    /\ raised = <<>>
    /\ caught = NoExc
    /\ exc = NoExc
    /\ uncaught = NoExc
    /\ stdout = <<>>
    /\ sessions0 \in InitialDirs
    /\ sessions = sessions0
    /\ evidenceDir \in BOOLEAN
    /\ madeBy = "none"
    /\ written = <<>>

procVars == <<playwright, browser, page>>
fsVars   == <<sessions0, sessions, evidenceDir, madeBy, written>>

(***************************************************************************)
(* A statement of the try body (line 53, test_session_creation) either     *)
(* returns, and the next statement runs, or raises, and control goes to    *)
(* "except Exception as e" (line 55) with e bound to what was raised.      *)
(***************************************************************************)
Returns(step) ==
    /\ pc' = Succ(step)
    /\ UNCHANGED <<raised, caught>>

RaisesAndGoesOn(step, kind) ==
    /\ raised' = Append(raised, Exc(step, kind))
    /\ caught' = caught
    /\ pc' = Succ(step)

Raises(step, kind) ==
    /\ raised' = Append(raised, Exc(step, kind))
    /\ caught' = Exc(step, kind)
    /\ pc' = "except_print"

(***************************************************************************)
(* __main__, lines 49-51: the driver, the browser, the page                *)
(***************************************************************************)
\* line 49, entering: with sync_playwright() as p
SyncPlaywright ==
    /\ pc = "sync_playwright"
    /\ trace' = Append(trace, "sync_playwright")
    /\ \/ /\ playwright' = "started"
          /\ pc' = "launch"
          /\ UNCHANGED <<raised, uncaught>>
       \/ \* the driver does not start: nothing was entered, nothing is exited
          /\ playwright' = playwright
          /\ raised' = Append(raised, Exc("sync_playwright", "ResourceFault"))
          /\ uncaught' = Exc("sync_playwright", "ResourceFault")
          /\ pc' = "done"
    /\ UNCHANGED <<browser, page, url, caught, exc, stdout, fsVars>>

\* line 50: browser = p.chromium.launch(headless=True), outside the try
Launch ==
    /\ pc = "launch"
    /\ trace' = Append(trace, "launch")
    /\ \/ /\ browser' = "open"
          /\ pc' = "new_page"
          /\ UNCHANGED <<raised, exc>>
       \/ /\ browser' = browser
          /\ raised' = Append(raised, Exc("launch", "ResourceFault"))
          /\ exc' = Exc("launch", "ResourceFault")
          /\ pc' = "with_exit"
    /\ UNCHANGED <<playwright, page, url, caught, uncaught, stdout, fsVars>>

\* line 51: page = browser.new_page(), outside the try
NewPage ==
    /\ pc = "new_page"
    /\ trace' = Append(trace, "new_page")
    /\ \/ /\ page' = "open"
          /\ pc' = "goto"
          /\ UNCHANGED <<raised, exc>>
       \/ /\ page' = page
          /\ raised' = Append(raised, Exc("new_page", "ResourceFault"))
          /\ exc' = Exc("new_page", "ResourceFault")
          /\ pc' = "with_exit"
    /\ UNCHANGED <<playwright, browser, url, caught, uncaught, stdout, fsVars>>

(***************************************************************************)
(* test_session_creation, lines 5-46                                       *)
(***************************************************************************)
\* line 7: page.goto("http://localhost:3000")
Goto ==
    /\ pc = "goto"
    /\ trace' = Append(trace, "goto")
    /\ \/ /\ url' = "http://localhost:3000/"
          /\ Returns("goto")
       \/ /\ url' = url
          /\ Raises("goto", "NavigationError")
    /\ UNCHANGED <<procVars, exc, uncaught, stdout, fsVars>>

\* lines 12-13: expect(page.get_by_text("test-repo").first).to_be_visible()
ExpectRepoVisibleUnchecked ==
    /\ pc = "expect_repo_visible"
    /\ trace' = Append(trace, "expect_repo_visible")
    /\ \E visible \in BOOLEAN :
          IF visible THEN Returns("expect_repo_visible")
          ELSE RaisesAndGoesOn("expect_repo_visible", "ElementNotVisible")
    /\ UNCHANGED <<procVars, url, exc, uncaught, stdout, fsVars>>

ExpectRepoVisible ==
    /\ pc = "expect_repo_visible"
    /\ trace' = Append(trace, "expect_repo_visible")
    /\ \E visible \in BOOLEAN :
          IF visible THEN Returns("expect_repo_visible")
          ELSE Raises("expect_repo_visible", "ElementNotVisible")
    /\ UNCHANGED <<procVars, url, exc, uncaught, stdout, fsVars>>

\* line 14: repo_item.click()
RepoClick ==
    /\ pc = "repo_click"
    /\ trace' = Append(trace, "repo_click")
    /\ \E done \in BOOLEAN :
          IF done THEN Returns("repo_click")
          ELSE Raises("repo_click", "ActionTimeout")
    /\ UNCHANGED <<procVars, url, exc, uncaught, stdout, fsVars>>

\* lines 18-19: expect(page.get_by_placeholder("Task Title")).to_be_visible()
ExpectTitleVisibleUnchecked ==
    /\ pc = "expect_title_visible"
    /\ trace' = Append(trace, "expect_title_visible")
    /\ \E visible \in BOOLEAN :
          IF visible THEN Returns("expect_title_visible")
          ELSE RaisesAndGoesOn("expect_title_visible", "ElementNotVisible")
    /\ UNCHANGED <<procVars, url, exc, uncaught, stdout, fsVars>>

ExpectTitleVisible ==
    /\ pc = "expect_title_visible"
    /\ trace' = Append(trace, "expect_title_visible")
    /\ \E visible \in BOOLEAN :
          IF visible THEN Returns("expect_title_visible")
          ELSE Raises("expect_title_visible", "ElementNotVisible")
    /\ UNCHANGED <<procVars, url, exc, uncaught, stdout, fsVars>>

\* line 20: title_input.fill("Test Session")
TitleFill ==
    /\ pc = "title_fill"
    /\ trace' = Append(trace, "title_fill")
    /\ \E done \in BOOLEAN :
          IF done THEN Returns("title_fill")
          ELSE Raises("title_fill", "ActionTimeout")
    /\ UNCHANGED <<procVars, url, exc, uncaught, stdout, fsVars>>

\* what the application under test does with a submitted session: it may
\* write a file into ~/.viba/sessions (creating the directory), or not
AppWrites ==
    \/ UNCHANGED sessions
    \/ \E n \in Names, c \in Contents :
          sessions' = [exists |-> TRUE,
                       files  |-> {e \in sessions.files : e.name # n}
                                  \cup {[name |-> n, content |-> c, mtime |-> 1]}]

\* lines 23-24: page.get_by_role("button", name="Start Session").click()
StartClick ==
    /\ pc = "start_click"
    /\ trace' = Append(trace, "start_click")
    /\ \/ /\ \E u \in Urls \ {"about:blank"} : url' = u
          /\ AppWrites
          /\ Returns("start_click")
       \/ /\ UNCHANGED <<url, sessions>>
          /\ Raises("start_click", "ActionTimeout")
    /\ UNCHANGED <<procVars, exc, uncaught, stdout,
                   sessions0, evidenceDir, madeBy, written>>

\* line 29: page.wait_for_url("**/session?*")
WaitForUrlUnchecked ==
    /\ pc = "wait_for_url"
    /\ trace' = Append(trace, "wait_for_url")
    /\ Returns("wait_for_url")
    /\ UNCHANGED <<procVars, url, exc, uncaught, stdout, fsVars>>

WaitForUrlPolls ==
    /\ pc = "wait_for_url"
    /\ IF wait_for_url_matches(url)
       THEN /\ trace' = Append(trace, "wait_for_url")
            /\ Returns("wait_for_url")
            /\ UNCHANGED <<procVars, url, exc, uncaught, stdout, fsVars>>
       ELSE UNCHANGED vars

WaitForUrl ==
    /\ pc = "wait_for_url"
    /\ trace' = Append(trace, "wait_for_url")
    /\ IF wait_for_url_matches(url) THEN Returns("wait_for_url")
       ELSE Raises("wait_for_url", "NavigationTimeout")
    /\ UNCHANGED <<procVars, url, exc, uncaught, stdout, fsVars>>

\* line 32: page.wait_for_timeout(2000)
WaitForTimeout ==
    /\ pc = "wait_for_timeout"
    /\ trace' = Append(trace, "wait_for_timeout")
    /\ \E alive \in BOOLEAN :
          IF alive THEN Returns("wait_for_timeout")
          ELSE Raises("wait_for_timeout", "TargetClosed")
    /\ UNCHANGED <<procVars, url, exc, uncaught, stdout, fsVars>>

\* lines 35-37: os.makedirs("verification") if it is missing, then
\* page.screenshot(path="verification/session_created.png")
Screenshot ==
    /\ pc = "screenshot"
    /\ trace' = Append(trace, "screenshot")
    /\ \/ \* os.makedirs raises
          /\ ~evidenceDir
          /\ UNCHANGED <<evidenceDir, madeBy, written>>
          /\ Raises("screenshot", "OSError")
       \/ \* the directory is there; the capture raises
          /\ evidenceDir' = TRUE
          /\ madeBy' = IF evidenceDir THEN madeBy ELSE "harness"
          /\ written' = written
          /\ Raises("screenshot", "ScreenshotError")
       \/ /\ evidenceDir' = TRUE
          /\ madeBy' = IF evidenceDir THEN madeBy ELSE "harness"
          /\ written' = Append(written, "verification/session_created.png")
          /\ Returns("screenshot")
    /\ UNCHANGED <<procVars, url, exc, uncaught, stdout, sessions0, sessions>>

\* lines 41-46: files = os.listdir(sessions_dir); print the listing;
\* raise Exception("No session file created!") unless a name ends in ".json"
ArtifactCheckUnchecked ==
    /\ pc = "artifact_check"
    /\ trace' = Append(trace, "artifact_check")
    /\ IF ~sessions.exists
       THEN /\ stdout' = stdout
            /\ Raises("artifact_check", "FileNotFoundError")
       ELSE /\ stdout' = Append(stdout, [line |-> "Session files", e |-> NoExc])
            /\ Returns("artifact_check")
    /\ UNCHANGED <<procVars, url, exc, uncaught, fsVars>>

ArtifactCheck ==
    /\ pc = "artifact_check"
    /\ trace' = Append(trace, "artifact_check")
    /\ IF ~sessions.exists
       THEN /\ stdout' = stdout
            /\ Raises("artifact_check", "FileNotFoundError")
       ELSE /\ stdout' = Append(stdout, [line |-> "Session files", e |-> NoExc])
            /\ IF any_json(listdir(sessions))
               THEN Returns("artifact_check")
               ELSE Raises("artifact_check", "ArtifactMissing")
    /\ UNCHANGED <<procVars, url, exc, uncaught, fsVars>>

(***************************************************************************)
(* __main__, lines 52-59: the try statement and the end of the with block  *)
(***************************************************************************)
\* line 54: print("Verification successful!")
PrintSuccessThenFailureShot ==
    /\ pc = "print_success"
    /\ trace' = Append(trace, "print_success")
    /\ stdout' = Append(stdout, [line |-> "Verification successful!", e |-> NoExc])
    /\ pc' = "except_screenshot"
    /\ UNCHANGED <<procVars, url, raised, caught, exc, uncaught, fsVars>>

PrintSuccess ==
    /\ pc = "print_success"
    /\ trace' = Append(trace, "print_success")
    /\ stdout' = Append(stdout, [line |-> "Verification successful!", e |-> NoExc])
    /\ pc' = "finally"
    /\ UNCHANGED <<procVars, url, raised, caught, exc, uncaught, fsVars>>

\* lines 55-56: except Exception as e: print(f"Verification failed: {e}")
ExceptPrint ==
    /\ pc = "except_print"
    /\ trace' = Append(trace, "except_print")
    /\ stdout' = Append(stdout, [line |-> "Verification failed", e |-> caught])
    /\ pc' = "except_screenshot"
    /\ UNCHANGED <<procVars, url, raised, caught, exc, uncaught, fsVars>>

\* line 57: page.screenshot(path="verification/failure.png"), in the handler and
\* unguarded: what it raises leaves the try statement through the finally
\* clause.  Page.screenshot creates the directories of its path before it
\* writes the file.
FailureScreenshotNoDir ==
    /\ pc = "except_screenshot"
    /\ trace' = Append(trace, "failure_screenshot")
    /\ \/ /\ UNCHANGED <<evidenceDir, madeBy>>
          /\ written' = Append(written, "verification/failure.png")
          /\ UNCHANGED <<raised, exc>>
       \/ /\ UNCHANGED <<evidenceDir, madeBy, written>>
          /\ raised' = Append(raised, Exc("failure_screenshot", "ScreenshotError"))
          /\ exc' = Exc("failure_screenshot", "ScreenshotError")
    /\ caught' = NoExc
    /\ pc' = "finally"
    /\ UNCHANGED <<procVars, url, uncaught, stdout, sessions0, sessions>>

FailureScreenshot ==
    /\ pc = "except_screenshot"
    /\ trace' = Append(trace, "failure_screenshot")
    /\ \/ /\ evidenceDir' = TRUE
          /\ madeBy' = IF evidenceDir THEN madeBy ELSE "page.screenshot"
          /\ written' = Append(written, "verification/failure.png")
          /\ UNCHANGED <<raised, exc>>
       \/ /\ UNCHANGED <<evidenceDir, madeBy, written>>
          /\ raised' = Append(raised, Exc("failure_screenshot", "ScreenshotError"))
          /\ exc' = Exc("failure_screenshot", "ScreenshotError")
    /\ caught' = NoExc
    /\ pc' = "finally"
    /\ UNCHANGED <<procVars, url, uncaught, stdout, sessions0, sessions>>

\* lines 58-59: finally: browser.close(); the browser's pages close with it
BrowserClose ==
    /\ pc = "finally"
    /\ trace' = Append(trace, "browser_close")
    /\ browser' = "closed"
    /\ page' = "closed"
    /\ pc' = "with_exit"
    /\ UNCHANGED <<playwright, url, raised, caught, exc, uncaught, stdout, fsVars>>

\* line 49, leaving the with block: sync_playwright().__exit__ stops the
\* driver; a browser the driver launched and that is still open is terminated
\* with it.  An exception that reached this point leaves the script.
WithExitNoStop ==
    /\ pc = "with_exit"
    /\ trace' = Append(trace, "with_exit")
    /\ UNCHANGED <<playwright, browser, page>>
    /\ uncaught' = exc
    /\ pc' = "done"
    /\ UNCHANGED <<url, raised, caught, exc, stdout, fsVars>>

WithExit ==
    /\ pc = "with_exit"
    /\ trace' = Append(trace, "with_exit")
    /\ playwright' = "stopped"
    /\ browser' = IF browser = "open" THEN "terminated" ELSE browser
    /\ page' = IF page = "open" THEN "closed" ELSE page
    /\ uncaught' = exc
    /\ pc' = "done"
    /\ UNCHANGED <<url, raised, caught, exc, stdout, fsVars>>

Next ==
    \/ SyncPlaywright
    \/ Launch
    \/ NewPage
    \/ Goto
    \/ ExpectRepoVisible
    \/ RepoClick
    \/ ExpectTitleVisible
    \/ TitleFill
    \/ StartClick
    \/ WaitForUrl
    \/ WaitForTimeout
    \/ Screenshot
    \/ ArtifactCheck
    \/ PrintSuccess
    \/ ExceptPrint
    \/ FailureScreenshot
    \/ BrowserClose
    \/ WithExit

Spec == Init /\ [][Next]_vars

\* The script is the only thread and each of its calls returns or raises
\* (every wait has a timeout): a statement that can run does run.
FairSpec == Spec /\ WF_vars(Next)

(***************************************************************************)
(* Vocabulary of the properties                                            *)
(***************************************************************************)
StepSet == {StepOrder[i] : i \in DOMAIN StepOrder}

IsStep(c) == c \in StepSet

\* the statements of test_session_creation begun so far, in order
WorkflowTrace == SelectSeq(trace, IsStep)

Ran(call) == \E i \in DOMAIN trace : trace[i] = call

HasRaised(x) == \E i \in DOMAIN raised : raised[i] = x

IsFailureLine(l) == l.line = "Verification failed"

IsSuccessLine(l) == l.line = "Verification successful!"

IsTerminalReport(l) == IsFailureLine(l) \/ IsSuccessLine(l)

FailureLines == SelectSeq(stdout, IsFailureLine)

TerminalReports == SelectSeq(stdout, IsTerminalReport)

Terminated == pc = "done"

\* the names in ~/.viba/sessions that end in ".json", written out
JsonNamed == {A_json, Only_json}

(***************************************************************************)
(* C1: in every terminal state of a run, a browser that was launched has   *)
(* been released: closed by browser.close() or terminated with the driver  *)
(* when the with block is left.  It is never still open.                   *)
(***************************************************************************)
C1_BrowserReleased ==
    Terminated => browser # "open" /\ page # "open"

\* page acquisition failed after the launch, and the run has ended
C1_Witness ==
    /\ Terminated
    /\ HasRaised(Exc("new_page", "ResourceFault"))
    /\ browser = "terminated"

(***************************************************************************)
(* C2: when a statement of test_session_creation raises, no later          *)
(* statement of it is begun, and by the end of the run the failure-path    *)
(* screenshot was attempted and exactly one "Verification failed" line was *)
(* printed, carrying that statement's error.                               *)
(***************************************************************************)
C2_FailureShortCircuits ==
    \A i \in DOMAIN raised :
        raised[i].at \in StepSet =>
            /\ WorkflowTrace[Len(WorkflowTrace)] = raised[i].at
            /\ ~Ran("print_success")
            /\ Terminated =>
                  /\ Ran("failure_screenshot")
                  /\ FailureLines = <<[line |-> "Verification failed", e |-> raised[i]]>>

\* the title input never showed: the run ended without the later statements
C2_Witness ==
    /\ Terminated
    /\ HasRaised(Exc("expect_title_visible", "ElementNotVisible"))
    /\ Ran("failure_screenshot")
    /\ Len(FailureLines) = 1

(***************************************************************************)
(* C3: if the failure-path screenshot itself raises, no new error leaves   *)
(* the orchestrator, and the run ends as a failed run whose diagnostic is  *)
(* the original failure's.                                                 *)
(***************************************************************************)
C3_ScreenshotFailureSwallowed ==
    (Terminated /\ HasRaised(Exc("failure_screenshot", "ScreenshotError"))) =>
        /\ uncaught = NoExc
        /\ Len(FailureLines) = 1
        /\ FailureLines[1].e = raised[1]

(***************************************************************************)
(* C4: the statements of test_session_creation that were begun form a      *)
(* prefix of the fixed order, each begun at most once.                     *)
(***************************************************************************)
C4_PrefixOfStepOrder ==
    /\ Len(WorkflowTrace) <= Len(StepOrder)
    /\ WorkflowTrace = SubSeq(StepOrder, 1, Len(WorkflowTrace))

\* a run that went through all ten statements and ended
C4_Witness ==
    /\ Terminated
    /\ Len(WorkflowTrace) = Len(StepOrder)

(***************************************************************************)
(* C5: a run that has ended has printed exactly one terminal report line,  *)
(* the success confirmation or the failure message.                        *)
(***************************************************************************)
C5_ExactlyOneReport ==
    Terminated => Len(TerminalReports) = 1

(***************************************************************************)
(* C6: in a run that printed the success confirmation, the names in        *)
(* ~/.viba/sessions after the run are a strict superset of the names       *)
(* before it, and one of the new names ends in ".json".                    *)
(***************************************************************************)
C6_NewJsonArtifact ==
    (\E i \in DOMAIN stdout : IsSuccessLine(stdout[i])) =>
        /\ listdir(sessions0) \subseteq listdir(sessions)
        /\ listdir(sessions0) # listdir(sessions)
        /\ \E n \in listdir(sessions) \ listdir(sessions0) : n \in JsonNamed

(***************************************************************************)
(* C7: given a listing of ~/.viba/sessions, the artifact check passes if   *)
(* and only if some name in the listing ends in ".json"; what the files    *)
(* hold and when they were written does not matter.                        *)
(***************************************************************************)
C7_CheckIsSuffixPresence ==
    (Ran("artifact_check") /\ sessions.exists) =>
        (  (\A i \in DOMAIN raised : raised[i].at # "artifact_check")
       <=> (listdir(sessions) \cap JsonNamed # {}) )

\* the check passed on a listing whose only .json name is an old file that
\* does not hold the session
C7_Witness ==
    /\ pc = "print_success"
    /\ \E e \in sessions.files : e.name \in JsonNamed
    /\ \A e \in sessions.files :
          e.name \in JsonNamed => e.content = "other" /\ e.mtime = 0

\* the check failed the run on the empty listing
C7_WitnessEmpty ==
    /\ sessions.exists
    /\ sessions.files = {}
    /\ HasRaised(Exc("artifact_check", "ArtifactMissing"))

(***************************************************************************)
(* C8: when ~/.viba/sessions does not exist at the artifact check, the     *)
(* diagnostic the run reports is the artifact-missing one.                 *)
(***************************************************************************)
C8_MissingDirIsArtifactMissing ==
    (Ran("artifact_check") /\ ~sessions.exists) =>
        \A i \in DOMAIN stdout :
            IsFailureLine(stdout[i]) => stdout[i].e.kind = "ArtifactMissing"

(***************************************************************************)
(* C9: when the repository item never becomes visible, the repository      *)
(* click, the title fill, the submit click and the wait for the session    *)
(* URL are never begun, and the run ends failed with the                   *)
(* element-not-visible diagnostic.                                         *)
(***************************************************************************)
C9_RepoNotVisibleStops ==
    HasRaised(Exc("expect_repo_visible", "ElementNotVisible")) =>
        /\ ~Ran("repo_click")
        /\ ~Ran("title_fill")
        /\ ~Ran("start_click")
        /\ ~Ran("wait_for_url")
        /\ ~Ran("print_success")
        /\ Terminated =>
              FailureLines = <<[line |-> "Verification failed",
                                e |-> Exc("expect_repo_visible", "ElementNotVisible")]>>

C9_Witness ==
    /\ Terminated
    /\ HasRaised(Exc("expect_repo_visible", "ElementNotVisible"))
    /\ Len(FailureLines) = 1

(***************************************************************************)
(* C10: when the location does not match the session pattern at the wait   *)
(* for the session URL, the wait times out, the run fails with the         *)
(* navigation-timeout diagnostic, and the success screenshot and the       *)
(* artifact check are not begun.                                           *)
(***************************************************************************)
NavigationTimedOut ==
    /\ HasRaised(Exc("wait_for_url", "NavigationTimeout"))
    /\ ~Ran("screenshot")
    /\ ~Ran("artifact_check")
    /\ ~Ran("print_success")
    /\ Terminated =>
          FailureLines = <<[line |-> "Verification failed",
                            e |-> Exc("wait_for_url", "NavigationTimeout")]>>

WroteFailurePng == \E i \in DOMAIN written : written[i] = "verification/failure.png"

\* C10 as stated: ... and verification/failure.png is produced
C10_FailurePngProduced ==
    (Ran("wait_for_url") /\ ~wait_for_url_matches(url)) =>
        /\ NavigationTimedOut
        /\ Terminated => WroteFailurePng

\* C10 as amended: ... and the capture of verification/failure.png is
\* attempted; the file is produced exactly when that capture does not raise
C10_FailurePngAttempted ==
    (Ran("wait_for_url") /\ ~wait_for_url_matches(url)) =>
        /\ NavigationTimedOut
        /\ Terminated =>
              /\ Ran("failure_screenshot")
              /\ WroteFailurePng <=>
                    ~HasRaised(Exc("failure_screenshot", "ScreenshotError"))

\* the application did not redirect, the wait timed out, failure.png was written
C10_Witness ==
    /\ Terminated
    /\ Ran("wait_for_url")
    /\ url = "http://localhost:3000/"
    /\ WroteFailurePng

(***************************************************************************)
(* C11: when p.chromium.launch raises, launch was attempted once, no       *)
(* statement of test_session_creation and no screenshot is begun, and the  *)
(* run ends with a "Verification failed" line that carries the launch      *)
(* error.                                                                  *)
(***************************************************************************)
C11_LaunchFailureReported ==
    HasRaised(Exc("launch", "ResourceFault")) =>
        /\ Cardinality({i \in DOMAIN trace : trace[i] = "launch"}) = 1
        /\ WorkflowTrace = <<>>
        /\ ~Ran("failure_screenshot")
        /\ Terminated =>
              FailureLines = <<[line |-> "Verification failed",
                                e |-> Exc("launch", "ResourceFault")]>>

(***************************************************************************)
(* C12: whenever a screenshot has been written, at either call site, the   *)
(* directory ./verification exists; it is created when it was missing,     *)
(* also in a run that fails before the success screenshot.                 *)
(***************************************************************************)
WroteSuccessPng ==
    \E i \in DOMAIN written : written[i] = "verification/session_created.png"

GateOf(call) ==
    IF call = "repo_click" THEN "expect_repo_visible"
    ELSE IF call = "title_fill" THEN "expect_title_visible"
    ELSE "expect_start_visible"

Gated(i) ==
    /\ \E j \in 1..(i - 1) : trace[j] = GateOf(trace[i])
    /\ \A k \in DOMAIN raised : raised[k].at # GateOf(trace[i])

\* C13 as stated: the repository click, the title fill and the submit click
C13_AllInteractionsGated ==
    \A i \in DOMAIN trace :
        trace[i] \in {"repo_click", "title_fill", "start_click"} => Gated(i)

\* C13 as amended: the repository click and the title fill are gated on their
\* own target; the submit click is begun after the title fill returned, with
\* no visibility assertion on the button
C13_ClickAndFillGated ==
    \A i \in DOMAIN trace :
        /\ trace[i] \in {"repo_click", "title_fill"} => Gated(i)
        /\ trace[i] = "start_click" =>
              /\ i > 1
              /\ trace[i - 1] = "title_fill"
              /\ \A k \in DOMAIN raised : raised[k].at # "title_fill"
              /\ ~Ran("expect_start_visible")

\* the three interactions were begun
C13_Witness ==
    /\ Ran("repo_click")
    /\ Ran("title_fill")
    /\ Ran("start_click")

(***************************************************************************)
(* C14: session_created.png is written only after the wait for the session *)
(* URL and the settle delay returned; failure.png is written only when a   *)
(* statement of test_session_creation raised; a run that printed the       *)
(* success confirmation has not written failure.png.                       *)
(***************************************************************************)
C14_ScreenshotsByOutcome ==
    /\ WroteSuccessPng =>
          /\ \E i, j, k \in DOMAIN trace :
                /\ i < j /\ j < k
                /\ trace[i] = "wait_for_url"
                /\ trace[j] = "wait_for_timeout"
                /\ trace[k] = "screenshot"
          /\ \A n \in DOMAIN raised :
                raised[n].at \notin {"wait_for_url", "wait_for_timeout"}
    /\ WroteFailurePng => \E n \in DOMAIN raised : raised[n].at \in StepSet
    /\ (\E i \in DOMAIN stdout : IsSuccessLine(stdout[i])) => ~WroteFailurePng

\* a passed run: only session_created.png was written
C14_Witness ==
    /\ Terminated
    /\ \E i \in DOMAIN stdout : IsSuccessLine(stdout[i])
    /\ written = <<"verification/session_created.png">>

(***************************************************************************)
(* C15: the success confirmation is printed only when session_created.png  *)
(* was written and the artifact check passed; a run whose artifact check   *)
(* raises has written session_created.png, reports failure, and writes     *)
(* failure.png after it.                                                   *)
(***************************************************************************)
ArtifactCheckRaised == \E n \in DOMAIN raised : raised[n].at = "artifact_check"

SuccessOnlyAfterCheck ==
    (\E i \in DOMAIN stdout : IsSuccessLine(stdout[i])) =>
        /\ WroteSuccessPng
        /\ Ran("artifact_check")
        /\ ~ArtifactCheckRaised
        /\ sessions.exists
        /\ listdir(sessions) \cap JsonNamed # {}

\* C15 as stated: both files are written
C15_BothScreenshotsWritten ==
    /\ SuccessOnlyAfterCheck
    /\ (ArtifactCheckRaised /\ Terminated) =>
          /\ Len(FailureLines) = 1
          /\ Len(TerminalReports) = 1
          /\ written = <<"verification/session_created.png",
                         "verification/failure.png">>

\* C15 as amended: failure.png is attempted, and written after
\* session_created.png unless that capture raises
C15_SecondScreenshotAttempted ==
    /\ SuccessOnlyAfterCheck
    /\ (ArtifactCheckRaised /\ Terminated) =>
          /\ Len(FailureLines) = 1
          /\ Len(TerminalReports) = 1
          /\ Ran("failure_screenshot")
          /\ written =
                IF HasRaised(Exc("failure_screenshot", "ScreenshotError"))
                THEN <<"verification/session_created.png">>
                ELSE <<"verification/session_created.png",
                       "verification/failure.png">>

\* session_created.png exists and the run failed at the artifact check
C15_Witness ==
    /\ Terminated
    /\ HasRaised(Exc("artifact_check", "ArtifactMissing"))
    /\ written = <<"verification/session_created.png", "verification/failure.png">>
    /\ Len(FailureLines) = 1

(***************************************************************************)
(* C16: every run reaches a terminal state, with the browser released and  *)
(* a pass or a fail outcome.                                               *)
(***************************************************************************)
Passed ==
    /\ \E i \in DOMAIN stdout : IsSuccessLine(stdout[i])
    /\ FailureLines = <<>>
    /\ uncaught = NoExc

Failed ==
    /\ \A i \in DOMAIN stdout : ~IsSuccessLine(stdout[i])
    /\ FailureLines # <<>> \/ uncaught # NoExc

C16_Terminates ==
    <>(Terminated /\ browser # "open" /\ (Passed \/ Failed))

\* the application never navigated: the run ended failed, the browser closed
C16_Witness ==
    /\ Terminated
    /\ HasRaised(Exc("wait_for_url", "NavigationTimeout"))
    /\ browser = "closed"
    /\ Failed

====
